---------------------------- MODULE Spec2Model ----------------------------
(***************************************************************************)
(* A state-machine model of two view components of DIM:                    *)
(*                                                                         *)
(*   LoadoutDrawerContainer  (src/app/loadout-drawer)                      *)
(*   GeneratedSetItem        (src/app/loadout-builder/generated-sets)      *)
(*                                                                         *)
(* The container is modelled at the granularity of the browser's event     *)
(* loop.  A change of the router's location is one step.  A render (the   *)
(* component function, which reads the location, the stores and the        *)
(* definitions and makes the closures of the listeners and of the effects) *)
(* is one step; the passive effects of that render, which subscribe the    *)
(* listeners again and run the URL effect and the close effect in          *)
(* declaration order, if their dependencies differ from those of the       *)
(* render before, are the next step of the component.  An event of the bus *)
(* that arrives between the two is handled by the listeners of the render  *)
(* before.  A navigate() call of an effect changes the location; the       *)
(* component sees it at its next render.                                   *)
(***************************************************************************)
EXTENDS Naturals, Sequences, FiniteSets

VARIABLES
  location,        \* the router's location: its pathname and its search
  mounted,         \* the container has been rendered for the first time
  stores,          \* useSelector(storesSelector), as of the last render
  defsD2,          \* defs?.isDestiny2(), as of the last render
  pathname,        \* useLocation().pathname as of the last render
  queryString,     \* useLocation().search as of the last render
  initialLoadout,  \* the useState cell: <<>> is undefined, <<r>> holds r
  pending,         \* the last render, while its effects have not run: <<>> when none
  listenerStores,  \* the stores of the render the listeners were subscribed in
  hasInitialLoadout,  \* the flag of the render the addItem$ listener was subscribed in
  missingItemIds,  \* how many ids generateMissingLoadoutItemId has handed out
  notified,        \* notifications shown by the last step, in order
  navigated,       \* navigate() calls made by the last step, in order
  handled,         \* the `loadout` parameter the URL effect read in the last step
  last,            \* the last step: its kind and its event
  \* GeneratedSetItem
  propsItem,       \* props.item
  itemOptions,     \* props.itemOptions
  locked,          \* props.locked: <<>> is undefined, <<l>> holds the list l
  picker,          \* the item pickers chooseReplacement calls await, oldest first
  dispatched,      \* actions passed to lbDispatch by the last step, in order
  lastClick,       \* the last step of the set item
  clicked,         \* what the last step was given: << >> when nothing
  escaped,         \* an exception has left the handler of the last step
  armor2ModPicker, \* $featureFlags.armor2ModPicker
  isDestiny2       \* props.item.isDestiny2()

containerVars == << location, mounted, stores, defsD2, pathname, queryString,
                    initialLoadout, pending, listenerStores, hasInitialLoadout,
                    missingItemIds,
                    notified, navigated, handled, last >>

itemVars == << propsItem, itemOptions, locked, picker, dispatched, lastClick,
              clicked, escaped, armor2ModPicker, isDestiny2 >>

vars == << containerVars, itemVars >>

----------------------------------------------------------------------------
(* Bounds of the model *)

MaxChars == 1

MaxAmount == 2

MaxOptions == 3

MaxSeason == 10

MaxItemIds == 4

MaxPickers == 2

----------------------------------------------------------------------------
(* Values *)

\* DestinyClass.Unknown of bungie-api-ts; 0, 1, 2 are Titan, Hunter, Warlock
Unknown == 3

CharClasses == {0, 1}

ClassTypes == CharClasses \cup {Unknown}

Undefined == "undefined"

VaultId == "vault"

CharIds == << "char1", "char2", "char3" >>

\* the optional boolean flags of an edit-loadout event
OptFlags == {Undefined, "true", "false"}

Boolean(x) == x = "true"

Inventory == << "i", "n", "v", "e", "n", "t", "o", "r", "y" >>

Loadouts == << "l", "o", "a", "d", "o", "u", "t", "s" >>

Prefix == << "/", "d", "2", "/" >>

PathNames ==
  { Prefix \o Inventory,
    Prefix \o Loadouts,
    Prefix \o << "r", "e", "c", "o", "r", "d", "s" >> }

\* String.prototype.endsWith
EndsWith(s, suffix) ==
  /\ Len(s) >= Len(suffix)
  /\ SubSeq(s, Len(s) - Len(suffix) + 1, Len(s)) = suffix

----------------------------------------------------------------------------
(* Stores *)

Vault == [id |-> VaultId, classType |-> Unknown, current |-> FALSE, isVault |-> TRUE]

Character(n, c, cur) ==
  [id |-> CharIds[n], classType |-> c, current |-> cur, isVault |-> FALSE]

\* The store lists the selector can return: none before the inventory is
\* loaded, afterwards the characters (the last of them the current one, a
\* Hunter when there are others) and the vault.
StoreLists ==
  { << >> } \cup
  UNION { { [i \in 1..(n + 1) |->
               IF i = n + 1 THEN Vault ELSE Character(i, cls[i], i = n)] :
            cls \in { c \in [1..n -> CharClasses] : n = 1 \/ c[n] = 1 } } :
          n \in 1..MaxChars }

StoreIds == { CharIds[n] : n \in 1..MaxChars } \cup {VaultId}

\* Array.prototype.find, given the indices whose element satisfies the
\* predicate: << >> is undefined, << x >> the first such element
First(s, ok) ==
  IF ok = {} THEN << >>
  ELSE << s[CHOOSE i \in ok : \A j \in ok : i <= j] >>

getCurrentStore(st) == First(st, { i \in 1..Len(st) : st[i].current })

getStore(st, id) == First(st, { i \in 1..Len(st) : st[i].id = id })

isClassCompatible(a, b) == a = Unknown \/ b = Unknown \/ a = b

\* Picks the store that backs a loadout: the requested store (the current
\* one when none, or the vault, is requested) if its class fits, else the
\* first character whose class fits, else nothing.
pickBackingStore(st, preferredStoreId, classType) ==
  LET requested == IF preferredStoreId = Undefined \/ preferredStoreId = VaultId
                   THEN getCurrentStore(st)
                   ELSE getStore(st, preferredStoreId)
  IN IF requested # << >> /\ isClassCompatible(classType, requested[1].classType)
     THEN requested
     ELSE First(st, { i \in 1..Len(st) :
                        ~st[i].isVault /\ isClassCompatible(classType, st[i].classType) })

----------------------------------------------------------------------------
(* Loadouts, items and the events that carry them *)

LoadoutItem(id, hash, equip, amount) ==
  [id |-> id, hash |-> hash, equip |-> equip, amount |-> amount]

\* uuidv4(): an opaque fresh identifier
uuidv4 == "uuid"

\* the ids of loadout-item-conversion, in the order its module-level counter
\* hands them out
MissingItemIdNames ==
  << "loadoutitem-1", "loadoutitem-2", "loadoutitem-3", "loadoutitem-4",
     "loadoutitem-5", "loadoutitem-6", "loadoutitem-7", "loadoutitem-8" >>

\* generateMissingLoadoutItemId(), called when the counter stands at n
generateMissingLoadoutItemId(n) == MissingItemIdNames[n + 1]

\* newLoadout(name, items, classType)
newLoadout(name, items, classType) ==
  [id |-> uuidv4, name |-> name, classType |-> classType, items |-> items]

\* the saved loadouts an edit-loadout event can carry
SavedLoadouts ==
  { [id |-> "saved", name |-> "pvp", classType |-> c,
     items |-> << LoadoutItem("6917", 11, TRUE, 1) >>] : c \in {0, Unknown} }

\* The edit-loadout events: a character requested for every loadout, no
\* store requested for a loadout of any class, the vault requested for a
\* loadout of a class; the two optional flags missing, true and false in turn.
EditEvents ==
  { ev \in [loadout : SavedLoadouts, storeId : StoreIds \cup {Undefined},
            showClass : OptFlags, isNew : OptFlags] :
      \/ ev.storeId \in {"char1", "char2"} /\ ev.showClass = "true" /\ ev.isNew = Undefined
      \/ /\ ev.storeId = Undefined /\ ev.loadout.classType = Unknown
         /\ ev.showClass = Undefined /\ ev.isNew = "true"
      \/ /\ ev.storeId = VaultId /\ ev.loadout.classType # Unknown
         /\ ev.showClass = "false" /\ ev.isNew = "false" }

\* the items an add-item event can carry, a stack of an item; the
\* owner may be a store that is not in the list, and the amount may be
\* missing: << >> is undefined
DimItems ==
  { item \in [id : {"6917"}, hash : {11}, owner : StoreIds,
              classType : {0, Unknown}, amount : { << >>, << MaxAmount >> }] :
      item.classType = Unknown <=> item.amount # << >> }

\* the payload of the `loadout` query parameter, after JSON.parse and
\* convertDimApiLoadoutToLoadout: shared loadouts may omit item ids ('0')
SharedLoadouts ==
  { [id |-> "shared", name |-> "share", classType |-> c,
     items |-> << LoadoutItem("0", 11, TRUE, 1), LoadoutItem("6918", 22, FALSE, 1),
                  LoadoutItem("0", 33, FALSE, 1) >>] :
    c \in {0} }

\* useLocation().search: its `loadout` parameter as the URL effect sees it
\* (none or an empty one, one that JSON.parse or the conversion throws on, one
\* the conversion returns nothing for, or a loadout) and the rest of it
NoQuery == [kind |-> "none", payload |-> << >>, rest |-> ""]

QueryStrings ==
  { NoQuery, [kind |-> "malformed", payload |-> << >>, rest |-> ""],
    [kind |-> "nothing", payload |-> << >>, rest |-> ""] } \cup
  { [kind |-> "share", payload |-> << l >>, rest |-> ""] : l \in SharedLoadouts } \cup
  { [kind |-> "share", payload |-> << l >>, rest |-> "foo=1"] :
      l \in { x \in SharedLoadouts : x.classType # Unknown } }

\* The router's locations: every path without a query string, the loadouts
\* screen with every query string, and another screen with a shared loadout.
Locations ==
  { loc \in [pathname : PathNames, search : QueryStrings] :
      \/ loc.search = NoQuery
      \/ EndsWith(loc.pathname, Loadouts)
      \/ /\ ~EndsWith(loc.pathname, Inventory)
         /\ loc.search.kind = "share"
         /\ loc.search.rest = ""
         /\ loc.search.payload[1].classType # Unknown }

\* new URLSearchParams(queryString).get('loadout') is truthy
HasLoadoutParam(qs) == qs.kind \in {"malformed", "nothing", "share"}

BadLoadoutShare == [type |-> "error", title |-> "Loadouts.BadLoadoutShare", arg |-> << >>]

ClassTypeMissing(classType) ==
  [type |-> "warning", title |-> "Loadouts.ClassTypeMissing", arg |-> << classType >>]

\* warnMissingClass(classType, defs)
warnMissingClass(classType) ==
  [type |-> "error", title |-> "LoadoutBuilder.MissingClass", arg |-> << classType >>]

----------------------------------------------------------------------------
(* The container: its state cell, its render and its two effects *)

\* setInitialLoadout({loadout, storeId, showClass, isNew})
LoadoutState(loadout, storeId, showClass, isNew) ==
  << [loadout |-> loadout, storeId |-> storeId, showClass |-> showClass, isNew |-> isNew] >>

\* a close callback that leaves the state cell as it is
handleDrawerCloseKeeps(il) == il

\* handleDrawerClose: setInitialLoadout(undefined)
handleDrawerClose(il) == << >>

\* account.destinyVersion
DestinyVersions == {1, 2}

\* What the component returns for a value of the state cell and the account
\* it is given: the set of drawer elements, each with its props.
Render(il, version) ==
  IF il # << >>
  THEN IF version = 2
       THEN { [component |-> "LoadoutDrawer",
               initialLoadout |-> il[1].loadout, storeId |-> il[1].storeId,
               isNew |-> il[1].isNew, showClass |-> << >>] }
       ELSE { [component |-> "D1LoadoutDrawer",
               initialLoadout |-> il[1].loadout, storeId |-> il[1].storeId,
               isNew |-> il[1].isNew, showClass |-> << il[1].showClass >>] }
  ELSE { }

\* What one step works on: the state cell, the router's location, and what
\* the step has shown, navigated to and read from the URL so far.
Cell(il, loc) ==
  [il |-> il, loc |-> loc, notes |-> << >>, navs |-> << >>, read |-> << >>,
   ids |-> missingItemIds]

\* showNotification(n)
showNotification(n, c) == [c EXCEPT !.notes = Append(@, n)]

\* editLoadout$: the store the loadout is edited on, the current store when
\* no store backs the loadout's class
EditingStore(st, ev) ==
  LET picked == pickBackingStore(st, ev.storeId, ev.loadout.classType)
  IN IF picked # << >> THEN picked ELSE getCurrentStore(st)

\* editLoadout$: the state the listener sets
EditedState(st, ev) ==
  LoadoutState(ev.loadout, EditingStore(st, ev)[1].id,
               Boolean(ev.showClass), Boolean(ev.isNew))

\* addItem$: the warning shown when no store backs the item
WarnNoOwner(item, c) == showNotification(ClassTypeMissing(item.classType), c)

\* addItem$: the state the listener sets, a new loadout holding the item,
\* with item.amount ?? 1 of it
DraftState(owner, item) ==
  LET classType == IF item.classType = Unknown THEN owner.classType ELSE item.classType
      draftLoadout == newLoadout("", << >>, classType)
      amount == IF item.amount = << >> THEN 1 ELSE item.amount[1]
  IN LoadoutState(
       [draftLoadout EXCEPT !.items =
          Append(@, LoadoutItem(item.id, item.hash, TRUE, amount))],
       owner.id, TRUE, TRUE)

\* the items of a shared loadout that have no id
Missing(items) == { i \in 1..Len(items) : items[i].id = "0" }

\* the items of a shared loadout, with an id generated, in order, for each of
\* those that have none, the counter standing at n before
WithItemIds(items, n) ==
  [i \in 1..Len(items) |->
     IF items[i].id = "0"
     THEN [items[i] EXCEPT !.id =
             generateMissingLoadoutItemId(
               n + Cardinality({ j \in Missing(items) : j < i }))]
     ELSE items[i]]

\* URL effect: the state it sets for a shared loadout
SharedState(storeId, parsedLoadout, n) ==
  LoadoutState([parsedLoadout EXCEPT !.id = uuidv4, !.items = WithItemIds(@, n)],
               storeId, FALSE, TRUE)

\* a URL effect that gives up without a warning
MissingClassSilent(classType, c) == c

\* URL effect: no store backs the shared loadout's class
MissingClass(classType, c) == showNotification(warnMissingClass(classType), c)

\* a catch block that swallows the exception
CatchSilently(c) == c

\* URL effect: the catch block
CatchBadShare(c) == showNotification(BadLoadoutShare, c)

\* navigate(pathname, { replace: true }): the router's location becomes the
\* pathname of the render, with no query string
ReplaceNavigate(path, c) ==
  [c EXCEPT !.navs = Append(@, path),
            !.loc = [pathname |-> path, search |-> NoQuery]]

\* a URL effect that does not wait for stores and definitions
UrlEffectEager(st, df, path, qs, c) ==
  IF ~HasLoadoutParam(qs) THEN c
  ELSE LET c0 == [c EXCEPT !.read = Append(@, qs)] IN
    IF qs.kind = "malformed"
    THEN ReplaceNavigate(path, CatchBadShare(c0))
    ELSE IF qs.kind = "nothing"
    THEN ReplaceNavigate(path, c0)
    ELSE LET parsedLoadout == qs.payload[1]
             store == pickBackingStore(st, Undefined, parsedLoadout.classType)
         IN IF store = << >>
            THEN MissingClass(parsedLoadout.classType, c0)
            ELSE ReplaceNavigate(path,
                   [c0 EXCEPT !.il = SharedState(store[1].id, parsedLoadout, c.ids),
                              !.ids = @ + Cardinality(Missing(parsedLoadout.items))])

\* the effect "Load in a full loadout specified in the URL"
UrlEffect(st, df, path, qs, c) ==
  IF Len(st) = 0 \/ ~df THEN c
  ELSE IF ~HasLoadoutParam(qs) THEN c
  ELSE LET c0 == [c EXCEPT !.read = Append(@, qs)] IN
    IF qs.kind = "malformed"
    THEN ReplaceNavigate(path, CatchBadShare(c0))
    ELSE IF qs.kind = "nothing"
    THEN ReplaceNavigate(path, c0)
    ELSE LET parsedLoadout == qs.payload[1]
             store == pickBackingStore(st, Undefined, parsedLoadout.classType)
         IN IF store = << >>
            THEN MissingClass(parsedLoadout.classType, c0)
            ELSE ReplaceNavigate(path,
                   [c0 EXCEPT !.il = SharedState(store[1].id, parsedLoadout, c.ids),
                              !.ids = @ + Cardinality(Missing(parsedLoadout.items))])

\* a check that forgets the loadouts screen
KeepsOpenOnInventory(path) == EndsWith(path, Inventory)

\* the path keeps an open drawer open
KeepsOpen(path) == EndsWith(path, Inventory) \/ EndsWith(path, Loadouts)

\* the effect "Close the loadout on navigation"
CloseEffect(path, c) ==
  IF ~KeepsOpen(path) THEN [c EXCEPT !.il = handleDrawerClose(@)] ELSE c

\* a commit whose close effect runs before its URL effect
CommitCloseFirst(st, df, path, qs, runUrl, runClose, c) ==
  LET c1 == IF runClose THEN CloseEffect(path, c) ELSE c
  IN IF runUrl THEN UrlEffect(st, df, path, qs, c1) ELSE c1

\* One commit: the effects whose dependencies changed run in the order the
\* component declares them, with the values of the render.
Commit(st, df, path, qs, runUrl, runClose, c) ==
  LET c1 == IF runUrl THEN UrlEffect(st, df, path, qs, c) ELSE c
  IN IF runClose THEN CloseEffect(path, c1) ELSE c1

\* the variables a step's cell decides
Settle(c) ==
  /\ c.ids <= MaxItemIds
  /\ initialLoadout' = c.il
  /\ missingItemIds' = c.ids
  /\ location' = c.loc
  /\ notified' = c.notes
  /\ navigated' = c.navs
  /\ handled' = c.read

\* The record of a step: its kind ("rendering" for a render, the kind of the
\* render for its effects); the event, when the container reacted to it;
\* whether a backing store was resolved for the event; and, for the steps
\* whose outcome depends on it, whether a loadout was open before the step.
Step(kind, arg, resolved) ==
  [kind |-> kind, arg |-> arg, resolved |-> resolved,
   open |-> kind \in {"addItem", "navigate"} /\ initialLoadout # << >>]

----------------------------------------------------------------------------
(* The container's steps *)

\* the set item the container's behaviours leave alone
ItemStart ==
  /\ propsItem = [id |-> 1, bucket |-> "Helmet"]
  /\ itemOptions = << [id |-> 1, bucket |-> "Helmet"] >>
  /\ locked = << >>
  /\ picker = << >>
  /\ dispatched = << >>
  /\ lastClick = "init"
  /\ clicked = << >>
  /\ escaped = FALSE
  /\ armor2ModPicker = FALSE
  /\ isDestiny2 = TRUE

Init ==
  /\ location \in Locations
  /\ mounted = FALSE
  /\ stores \in StoreLists
  /\ defsD2 \in BOOLEAN
  /\ pathname = location.pathname
  /\ queryString = location.search
  /\ initialLoadout = << >>
  /\ pending = << >>
  /\ listenerStores = << >>
  /\ hasInitialLoadout = FALSE
  /\ missingItemIds = 0
  /\ notified = << >>
  /\ navigated = << >>
  /\ handled = << >>
  /\ last = [kind |-> "init", arg |-> << >>, resolved |-> FALSE, open |-> FALSE]
  /\ ItemStart

\* What a render leaves for its effects: the kind of render, whether the
\* dependencies of the URL effect and of the close effect differ from those
\* of the render before, and the flag the render computed from the state
\* cell.
Rendered(kind, runUrl, runClose) ==
  << [kind |-> kind, url |-> runUrl, close |-> runClose,
      hasInitialLoadout |-> initialLoadout # << >>] >>

\* the listeners are subscribed: the effects of the first render have run
Subscribed ==
  IF pending = << >> THEN mounted ELSE pending[1].kind # "mount"

\* the drawer is on the screen: the last render found the state cell set
DrawerShown ==
  IF pending # << >> THEN pending[1].hasInitialLoadout
  ELSE mounted /\ hasInitialLoadout

\* useLocation() returns another pathname or search than at the render before
LocationChanged == location.pathname # pathname \/ location.search # queryString

\* a step of the bus or of the router: the component is not rendered
NoRender ==
  UNCHANGED << mounted, stores, defsD2, pathname, queryString, pending,
               listenerStores, hasInitialLoadout >>

\* The router's location changes: a link, the back button, a pasted share
\* URL, another parameter of the query string.
LocationChange(loc) ==
  /\ mounted
  /\ loc # location
  /\ Settle([Cell(initialLoadout, location) EXCEPT !.loc = loc])
  /\ last' = Step("location", << >>, FALSE)
  /\ NoRender
  /\ UNCHANGED itemVars

\* the first render
Mount ==
  /\ ~mounted
  /\ mounted' = TRUE
  /\ pathname' = location.pathname
  /\ queryString' = location.search
  /\ pending' = Rendered("mount", TRUE, TRUE)
  /\ Settle(Cell(initialLoadout, location))
  /\ last' = Step("rendering", << >>, FALSE)
  /\ UNCHANGED << stores, defsD2, listenerStores, hasInitialLoadout >>
  /\ UNCHANGED itemVars

\* the editLoadout$ listener, with the stores of the render it was subscribed in
EditLoadout(ev) ==
  /\ Subscribed
  /\ LET resolved ==
           pickBackingStore(listenerStores, ev.storeId, ev.loadout.classType) # << >>
         c == Cell(initialLoadout, location)
     IN IF EditingStore(listenerStores, ev) = << >>
        THEN /\ Settle(c)
             /\ last' = Step("edit", << >>, resolved)
        ELSE /\ Settle([c EXCEPT !.il = EditedState(listenerStores, ev)])
             /\ last' = Step("edit", << ev >>, resolved)
  /\ NoRender
  /\ UNCHANGED itemVars

\* the addItem$ listener, with the flag and the stores of the render it was
\* subscribed in
AddItem(item) ==
  /\ Subscribed
  /\ LET owner == pickBackingStore(listenerStores, item.owner, item.classType)
         c == Cell(initialLoadout, location)
     IN IF hasInitialLoadout
        THEN /\ Settle(c)
             /\ last' = Step("addItem", << >>, owner # << >>)
        ELSE /\ IF owner = << >>
                THEN Settle(WarnNoOwner(item, c))
                ELSE Settle([c EXCEPT !.il = DraftState(owner[1], item)])
             /\ last' = Step("addItem", << item >>, owner # << >>)
  /\ NoRender
  /\ UNCHANGED itemVars

\* The render for a location the component has not been rendered with.
Navigate ==
  /\ mounted
  /\ pending = << >>
  /\ LocationChanged
  /\ pathname' = location.pathname
  /\ queryString' = location.search
  /\ pending' = Rendered("navigate", LocationChanged, location.pathname # pathname)
  /\ Settle(Cell(initialLoadout, location))
  /\ last' = Step("rendering", << >>, FALSE)
  /\ UNCHANGED << mounted, stores, defsD2, listenerStores, hasInitialLoadout >>
  /\ UNCHANGED itemVars

\* The store selector returns another array, which may hold the same stores,
\* and the component is rendered with it.
StoresChange(st) ==
  /\ mounted
  /\ pending = << >>
  /\ stores' = st
  /\ pathname' = location.pathname
  /\ queryString' = location.search
  /\ pending' = Rendered("stores", TRUE, location.pathname # pathname)
  /\ Settle(Cell(initialLoadout, location))
  /\ last' = Step("rendering", << >>, FALSE)
  /\ UNCHANGED << mounted, defsD2, listenerStores, hasInitialLoadout >>
  /\ UNCHANGED itemVars

\* the Destiny 2 definitions arrive, and the component is rendered with them
DefsLoaded ==
  /\ mounted
  /\ pending = << >>
  /\ ~defsD2
  /\ defsD2' = TRUE
  /\ pathname' = location.pathname
  /\ queryString' = location.search
  /\ pending' = Rendered("defs", TRUE, location.pathname # pathname)
  /\ Settle(Cell(initialLoadout, location))
  /\ last' = Step("rendering", << >>, FALSE)
  /\ UNCHANGED << mounted, stores, listenerStores, hasInitialLoadout >>
  /\ UNCHANGED itemVars

\* the drawer calls onClose
Close ==
  /\ Subscribed
  /\ DrawerShown
  /\ Settle([Cell(initialLoadout, location) EXCEPT !.il = handleDrawerClose(@)])
  /\ last' = Step("close", << >>, FALSE)
  /\ NoRender
  /\ UNCHANGED itemVars

\* The render that follows a change of the state cell: the flag it computes
\* differs from the flag of the render before.
Rerender ==
  /\ mounted
  /\ pending = << >>
  /\ hasInitialLoadout # (initialLoadout # << >>)
  /\ pathname' = location.pathname
  /\ queryString' = location.search
  /\ pending' = Rendered("render", LocationChanged, location.pathname # pathname)
  /\ Settle(Cell(initialLoadout, location))
  /\ last' = Step("rendering", << >>, FALSE)
  /\ UNCHANGED << mounted, stores, defsD2, listenerStores, hasInitialLoadout >>
  /\ UNCHANGED itemVars

\* The passive effects of the last render: the listeners are subscribed with
\* the closures of that render, then the URL effect and the close effect run
\* if their dependencies have changed.
Effects ==
  /\ pending # << >>
  /\ pending' = << >>
  /\ listenerStores' = stores
  /\ hasInitialLoadout' = pending[1].hasInitialLoadout
  /\ Settle(Commit(stores, defsD2, pathname, queryString,
                   pending[1].url, pending[1].close,
                   Cell(initialLoadout, location)))
  /\ last' = Step(pending[1].kind, << >>, FALSE)
  /\ UNCHANGED << mounted, stores, defsD2, pathname, queryString >>
  /\ UNCHANGED itemVars

Next ==
  \/ Mount
  \/ \E loc \in Locations : LocationChange(loc)
  \/ \E ev \in EditEvents : EditLoadout(ev)
  \/ \E item \in DimItems : AddItem(item)
  \/ Navigate
  \/ \E st \in StoreLists : StoresChange(st)
  \/ DefsLoaded
  \/ Close
  \/ Rerender
  \/ Effects

Spec == Init /\ [][Next]_vars

----------------------------------------------------------------------------
(* GeneratedSetItem: one item of a generated set *)

\* the armor the item picker can offer
GearItems ==
  { [id |-> n, bucket |-> IF n % 2 = 1 THEN "Helmet" ELSE "Chest"] : n \in 1..MaxOptions }

\* the lists of alternatives: distinct items, the displayed one among them
OptionLists ==
  { o \in UNION { [1..n -> GearItems] : n \in 1..MaxOptions } :
      \A i, j \in 1..Len(o) : o[i].id = o[j].id => i = j }

\* a locked entry: an item, or a perk
LockedItem(it) == [type |-> "item", ref |-> it.id, bucket |-> it.bucket]

LockedPerk(b) == [type |-> "perk", ref |-> 77, bucket |-> b]

\* the perks of the displayed item that a shift-click can name
Perks(it) == { [type |-> "perk", ref |-> h, bucket |-> it.bucket] : h \in {77, 78} }

\* props.locked for a displayed item: undefined, or a list of at most two
\* different entries, each the displayed item, the item after it, or a perk
\* locked in one of the buckets
LockedLists(it) ==
  LET entries == { LockedItem(g) : g \in { h \in GearItems :
                                             h.id \in {it.id, (it.id % MaxOptions) + 1} } }
                 \cup { LockedPerk(b) : b \in {"Helmet", "Chest"} }
  IN { << >> } \cup
     { << l >> : l \in { m \in UNION { [1..n -> entries] : n \in 0..2 } :
                            Len(m) = 2 => m[1] # m[2] } }

\* lockedItemsEqual(first, second): the same kind of entry for the same
\* item, or the same perk
lockedItemsEqual(first, second) ==
  first.type = second.type /\ first.ref = second.ref

\* lbDispatch({ type: 'addItemToLockedMap', item })
addLockedItem(li) == [type |-> "addItemToLockedMap", item |-> li]

\* lbDispatch({ type: 'removeItemFromLockedMap', item })
removeLockedItem(li) == [type |-> "removeItemFromLockedMap", item |-> li]

\* a swap button that is also shown for a single alternative
ShowsSwapForAny(options) == Len(options) >= 1

\* the swap button is rendered
ShowsSwap(options) == Len(options) > 1

\* an unlock button that does not depend on the alternatives
ShowsUnlockBesideSwap(options, lk) ==
  /\ lk # << >>
  /\ \E i \in 1..Len(lk[1]) : lk[1][i].type = "item"

\* the unlock button is rendered
ShowsUnlock(options, lk) ==
  /\ ~ShowsSwap(options)
  /\ lk # << >>
  /\ \E i \in 1..Len(lk[1]) : lk[1][i].type = "item"

\* chooseReplacement: the ids of the alternatives
OptionIds(options) == { options[i].id : i \in 1..Len(options) }

\* chooseReplacement: the picker it opens
ItemPicker(options) ==
  << [prompt |-> "LoadoutBuilder.ChooseAlternate", ids |-> OptionIds(options)] >>

\* the picker's filterItems
filterItems(p, it) == it.id \in p.ids

\* chooseReplacement, once the picker's promise has resolved with an item
ChosenReplacement(picked) == << addLockedItem(LockedItem(picked)) >>

\* a chooseReplacement without its try and catch: the rejection leaves it
ChoiceDismissedThrows == [actions |-> << >>, thrown |-> TRUE]

\* chooseReplacement, once the picker's promise has rejected: catch (e) {}
\* swallows the rejection, and nothing is dispatched
ChoiceDismissed == [actions |-> << >>, thrown |-> FALSE]

\* the unlock button's onClick
UnlockClicked(it) == << removeLockedItem(LockedItem(it)) >>

\* a shift-click that locks whatever is locked already
onShiftClickAdds(lk, lockedItem) == << addLockedItem(lockedItem) >>

\* onShiftClick(lockedItem)
onShiftClick(lk, lockedItem) ==
  IF lk # << >> /\ \E i \in 1..Len(lk[1]) : lockedItemsEqual(lockedItem, lk[1][i])
  THEN << removeLockedItem(lockedItem) >>
  ELSE << addLockedItem(lockedItem) >>

\* Text is a sequence of characters.
Digits == << "0", "1", "2", "3", "4", "5", "6", "7", "8", "9" >>

\* Number.prototype.toString
RECURSIVE ToString(_)
ToString(n) ==
  IF n < 10 THEN << Digits[n + 1] >>
  ELSE ToString(n \div 10) \o << Digits[(n % 10) + 1] >>

\* ModPickerCategories.seasonal
Seasonal == "seasonal"

\* the values of ModPickerCategories
ModPickerCategories == {"general", "helmet", Seasonal}

\* armor2ModPlugCategoriesTitles[category]: the translation key of the title
armor2ModPlugCategoriesTitles(category) ==
  CASE category = "general" -> "LB.General"
    [] category = "helmet" -> "LB.Helmet"
    [] category = Seasonal -> "LB.Season"

\* t(key): the translated text
t(key) ==
  CASE key = "LB.General" -> << "G", "e", "n", "e", "r", "a", "l" >>
    [] key = "LB.Helmet" -> << "H", "e", "l", "m", "e", "t" >>
    [] key = "LB.Season" -> << "S", "e", "a", "s", "o", "n", "a", "l" >>

\* the plugs of the item's sockets, with displayProperties.name
PlugDefs ==
  { [hash |-> 77, name |-> << "R", "a", "m", "p", "a", "g", "e" >>],
    [hash |-> 78, name |-> << "1", "0" >>] }

\* the optional season number of a socket click: << >> is undefined
Seasons == { << >> } \cup { << n >> : n \in 9..MaxSeason }

\* lbDispatch({ type: 'openModPicker', initialQuery }): << >> is undefined
openModPicker(initialQuery) == [type |-> "openModPicker", initialQuery |-> initialQuery]

\* lbDispatch({ type: 'openPerkPicker', initialQuery })
openPerkPicker(initialQuery) == [type |-> "openPerkPicker", initialQuery |-> initialQuery]

\* a socket click that always opens the perk picker
onSocketClickPerkOnly(plugDef, category, season) ==
  << openPerkPicker(<< plugDef.name >>) >>

\* onSocketClick(plugDef, category, season)
onSocketClick(plugDef, category, season) ==
  IF category # Undefined
  THEN LET initialQuery ==
             IF category = Seasonal
             THEN IF season = << >> THEN << >> ELSE << ToString(season[1]) >>
             ELSE << t(armor2ModPlugCategoriesTitles(category)) >>
       IN << openModPicker(initialQuery) >>
  ELSE << openPerkPicker(<< plugDef.name >>) >>

\* the container the set item's behaviours leave alone
ContainerStart ==
  /\ location = [pathname |-> Prefix \o Inventory, search |-> NoQuery]
  /\ mounted = FALSE
  /\ stores = << >>
  /\ defsD2 = FALSE
  /\ pathname = Prefix \o Inventory
  /\ queryString = NoQuery
  /\ initialLoadout = << >>
  /\ pending = << >>
  /\ listenerStores = << >>
  /\ hasInitialLoadout = FALSE
  /\ missingItemIds = 0
  /\ notified = << >>
  /\ navigated = << >>
  /\ handled = << >>
  /\ last = [kind |-> "init", arg |-> << >>, resolved |-> FALSE, open |-> FALSE]

InitItem ==
  /\ itemOptions \in OptionLists
  /\ propsItem \in { itemOptions[i] : i \in 1..Len(itemOptions) }
  /\ locked \in LockedLists(propsItem)
  /\ picker = << >>
  /\ dispatched = << >>
  /\ lastClick = "init"
  /\ clicked = << >>
  /\ escaped = FALSE
  /\ armor2ModPicker \in BOOLEAN
  /\ isDestiny2 \in BOOLEAN
  /\ ContainerStart

\* the sequence s without its k-th element
Without(s, k) == SubSeq(s, 1, k - 1) \o SubSeq(s, k + 1, Len(s))

\* a click on the swap button: chooseReplacement up to its await
ClickSwap ==
  /\ ShowsSwap(itemOptions)
  /\ Len(picker) < MaxPickers
  /\ picker' = picker \o ItemPicker(itemOptions)
  /\ dispatched' = << >>
  /\ lastClick' = "swap"
  /\ clicked' = << >>
  /\ escaped' = FALSE
  /\ UNCHANGED << propsItem, itemOptions, locked, armor2ModPicker, isDestiny2 >>
  /\ UNCHANGED containerVars

\* the promise of the k-th picker resolves with an item that passed its filter
PickerResolves(k, picked) ==
  /\ k \in 1..Len(picker)
  /\ filterItems(picker[k], picked)
  /\ picker' = Without(picker, k)
  /\ dispatched' = ChosenReplacement(picked)
  /\ lastClick' = "picked"
  /\ clicked' = << picked >>
  /\ escaped' = FALSE
  /\ UNCHANGED << propsItem, itemOptions, locked, armor2ModPicker, isDestiny2 >>
  /\ UNCHANGED containerVars

\* the k-th picker is dismissed: its promise rejects, and the catch swallows it
PickerRejects(k) ==
  /\ k \in 1..Len(picker)
  /\ picker' = Without(picker, k)
  /\ dispatched' = ChoiceDismissed.actions
  /\ lastClick' = "dismissed"
  /\ clicked' = << >>
  /\ escaped' = ChoiceDismissed.thrown
  /\ UNCHANGED << propsItem, itemOptions, locked, armor2ModPicker, isDestiny2 >>
  /\ UNCHANGED containerVars

\* a click on the unlock button
ClickUnlock ==
  /\ ShowsUnlock(itemOptions, locked)
  /\ dispatched' = UnlockClicked(propsItem)
  /\ lastClick' = "unlock"
  /\ clicked' = << >>
  /\ escaped' = FALSE
  /\ UNCHANGED << propsItem, itemOptions, locked, picker, armor2ModPicker, isDestiny2 >>
  /\ UNCHANGED containerVars

\* ItemSockets is rendered: the mod picker is switched off and the item is
\* a Destiny 2 item
ShowsItemSockets == ~armor2ModPicker /\ isDestiny2

\* a shift-click on a perk of the item's sockets, in ItemSockets
ShiftClick(lockedItem) ==
  /\ ShowsItemSockets
  /\ dispatched' = onShiftClick(locked, lockedItem)
  /\ lastClick' = "shift"
  /\ clicked' = << lockedItem >>
  /\ escaped' = FALSE
  /\ UNCHANGED << propsItem, itemOptions, locked, picker, armor2ModPicker, isDestiny2 >>
  /\ UNCHANGED containerVars

\* a click on a socket, which Sockets shows when the mod picker is switched on
SocketClick(plugDef, category, season) ==
  /\ armor2ModPicker
  /\ dispatched' = onSocketClick(plugDef, category, season)
  /\ lastClick' = "socket"
  /\ clicked' = << [plugDef |-> plugDef, category |-> category, season |-> season] >>
  /\ escaped' = FALSE
  /\ UNCHANGED << propsItem, itemOptions, locked, picker, armor2ModPicker, isDestiny2 >>
  /\ UNCHANGED containerVars

\* LoadoutBuilderItem calls the addLockedItem it was given, for the item it shows
ItemLocks ==
  /\ dispatched' = << addLockedItem(LockedItem(propsItem)) >>
  /\ lastClick' = "lock"
  /\ clicked' = << propsItem >>
  /\ escaped' = FALSE
  /\ UNCHANGED << propsItem, itemOptions, locked, picker, armor2ModPicker, isDestiny2 >>
  /\ UNCHANGED containerVars

\* the parent renders the item with another locked list
LockedChanges(lk) ==
  /\ lk # locked
  /\ locked' = lk
  /\ dispatched' = << >>
  /\ lastClick' = "props"
  /\ clicked' = << >>
  /\ escaped' = FALSE
  /\ UNCHANGED << propsItem, itemOptions, picker, armor2ModPicker, isDestiny2 >>
  /\ UNCHANGED containerVars

NextItem ==
  \/ ClickSwap
  \/ \E k \in 1..MaxPickers, picked \in GearItems : PickerResolves(k, picked)
  \/ \E k \in 1..MaxPickers : PickerRejects(k)
  \/ ClickUnlock
  \/ \E lockedItem \in Perks(propsItem) : ShiftClick(lockedItem)
  \/ \E plugDef \in PlugDefs, category \in ModPickerCategories \cup {Undefined},
        season \in Seasons : SocketClick(plugDef, category, season)
  \/ ItemLocks
  \/ \E lk \in LockedLists(propsItem) : LockedChanges(lk)

SpecItem == InitItem /\ [][NextItem]_vars

----------------------------------------------------------------------------
(* Properties of the container *)

\* a character of the list fits the class type
HasMatchingStore(st, classType) ==
  \E i \in 1..Len(st) : ~st[i].isVault /\ isClassCompatible(classType, st[i].classType)

\* the shared loadout the URL effect read in the last step, if any
HandledShare == handled # << >> /\ handled[1].kind = "share"

\* the step just taken ran the passive effects of the last render
EffectsRan == pending # << >> /\ pending' = << >>

\* the step just taken ran the effects of a render, the close-on-navigation
\* effect among them, and it closed
CloseRan ==
  /\ EffectsRan
  /\ pending[1].close
  /\ ~KeepsOpen(pathname)

\* C1 as stated: a trigger event for which a backing store is resolved among
\* the stores of the container decides the state, whatever the state was
\* before: after an edit-loadout event it is the edited loadout, after an
\* add-item event a draft holding the item, after the URL effect has read a
\* share (and no close effect followed it) the shared loadout; and a share
\* that was in the URL before an edit-loadout or add-item event opened a
\* loadout does not replace that loadout afterwards.
C1_LastEventWins ==
  [][ /\ \A ev \in EditEvents :
           (/\ EditLoadout(ev)
            /\ pickBackingStore(stores, ev.storeId, ev.loadout.classType) # << >>) =>
             initialLoadout' = EditedState(stores, ev)
      /\ \A item \in DimItems :
           (/\ AddItem(item)
            /\ pickBackingStore(stores, item.owner, item.classType) # << >>) =>
             initialLoadout' =
               DraftState(pickBackingStore(stores, item.owner, item.classType)[1],
                          item)
      /\ (/\ EffectsRan /\ ~CloseRan
          /\ HandledShare'
          /\ HasMatchingStore(stores, handled'[1].payload[1].classType)) =>
           initialLoadout' =
             SharedState(pickBackingStore(stores, Undefined,
                                          handled'[1].payload[1].classType)[1].id,
                         handled'[1].payload[1], missingItemIds)
      /\ (/\ last.kind \in {"edit", "addItem"} /\ last.arg # << >>
          /\ EffectsRan /\ ~CloseRan) =>
           initialLoadout' = initialLoadout
    ]_vars

\* the state holds a new loadout with exactly one entry, the item
HoldsOnly(il, item) ==
  /\ il # << >>
  /\ Len(il[1].loadout.items) = 1
  /\ il[1].loadout.items[1].id = item.id
  /\ il[1].loadout.items[1].hash = item.hash
  /\ il[1].loadout.items[1].amount =
       (IF item.amount = << >> THEN 1 ELSE item.amount[1])
  /\ il[1].isNew

\* C2 as stated: after any add-item event that arrives while no loadout is
\* open, the state holds a new loadout with exactly one entry, whose id, hash
\* and amount are the item's, opened as new.
C2_AddItemAlwaysOpens ==
  [][ \A item \in DimItems :
        (AddItem(item) /\ initialLoadout = << >>) =>
          /\ HoldsOnly(initialLoadout', item)
          /\ item.amount = << initialLoadout'[1].loadout.items[1].amount >>
    ]_vars

\* C3 as stated: after an edit-loadout event whose class type fits a
\* character of the container's stores, the state holds the event's loadout,
\* the id of the store pickBackingStore chooses among those stores for the
\* event's store and class type, and the event's flags as booleans.
C3_EditOpensOnBackingStore ==
  [][ \A ev \in EditEvents :
        (EditLoadout(ev) /\ HasMatchingStore(stores, ev.loadout.classType)) =>
          initialLoadout' =
            << [loadout |-> ev.loadout,
                storeId |-> pickBackingStore(stores, ev.storeId,
                                             ev.loadout.classType)[1].id,
                showClass |-> (ev.showClass = "true"),
                isNew |-> (ev.isNew = "true")] >>
    ]_vars

\* C4: the effects of a render at which the pathname has changed to a path
\* that ends in neither 'inventory' nor 'loadouts' leave the state unset,
\* and nothing is rendered; those of a render at which it has changed to a
\* path that ends in one of them leave an open loadout open; and neither the
\* change of location nor the render itself touches the state.
C4_NavigationCloses ==
  [][ /\ (EffectsRan /\ pending[1].close) =>
           /\ (/\ ~EndsWith(pathname, Inventory)
               /\ ~EndsWith(pathname, Loadouts)) =>
                /\ initialLoadout' = << >>
                /\ \A v \in DestinyVersions : Render(initialLoadout', v) = { }
           /\ (/\ (EndsWith(pathname, Inventory) \/ EndsWith(pathname, Loadouts))
               /\ initialLoadout # << >>) =>
                initialLoadout' # << >>
      /\ last'.kind \in {"rendering", "location"} =>
           initialLoadout' = initialLoadout
    ]_vars

\* C4 witness: the effects of the render for another screen have closed the
\* loadout that was open
C4_Witness ==
  /\ last.kind = "navigate" /\ last.open
  /\ initialLoadout = << >>
  /\ ~EndsWith(pathname, Inventory) /\ ~EndsWith(pathname, Loadouts)

\* C5: when the URL effect reads a loadout parameter that does not parse,
\* exactly one BadLoadoutShare error is shown and the parameter opens
\* nothing: the state is as it was, or cleared by the close effect.
C5_BadShareNotifies ==
  [][ (handled' # << >> /\ handled'[1].kind = "malformed") =>
        /\ notified' = << BadLoadoutShare >>
        /\ initialLoadout' = IF CloseRan THEN << >> ELSE initialLoadout
    ]_vars

\* C5 witness: a malformed parameter was read and reported, nothing is open
C5_Witness ==
  /\ handled # << >> /\ handled[1].kind = "malformed"
  /\ notified = << BadLoadoutShare >>
  /\ initialLoadout = << >>

\* C6: when the URL effect reads a loadout whose class type fits no
\* character, the missing-class warning is shown for that class type and the
\* state is as it was, or cleared by the close effect.
C6_MissingClassWarns ==
  [][ (HandledShare' /\ ~HasMatchingStore(stores', handled'[1].payload[1].classType)) =>
        /\ notified' = << warnMissingClass(handled'[1].payload[1].classType) >>
        /\ initialLoadout' = IF CloseRan THEN << >> ELSE initialLoadout
    ]_vars

\* C6 witness: a shared loadout was read with characters loaded, none of
\* its class, and the warning was shown
C6_Witness ==
  /\ HandledShare
  /\ Len(stores) > 0
  /\ ~HasMatchingStore(stores, handled[1].payload[1].classType)
  /\ Len(notified) = 1
  /\ notified[1].title = "LoadoutBuilder.MissingClass"
  /\ initialLoadout = << >>

\* C7 as stated: whenever the URL effect reads a loadout parameter that
\* parses, it replace-navigates to the bare pathname and the parameter is
\* gone from the URL, also when the class type fits no character.
C7_ParsedShareIsStripped ==
  HandledShare => (navigated = << pathname >> /\ location.search = NoQuery)

\* C8 as stated: after an add-item event that arrived with no loadout open
\* and for which no backing store is resolved, exactly one ClassTypeMissing
\* warning has been shown, for the item's class, and the state is unset.
C8_AddItemWarnsWithoutStore ==
  (last.kind = "addItem" /\ ~last.open /\ ~last.resolved) =>
    /\ Len(notified) = 1
    /\ notified[1].type = "warning"
    /\ notified[1].title = "Loadouts.ClassTypeMissing"
    /\ last.arg # << >>
    /\ notified[1].arg = << last.arg[1].classType >>
    /\ initialLoadout = << >>

\* C9: the state cell holds at most one loadout; for either account the
\* component renders nothing when the cell is unset and exactly one drawer
\* when it is set, the Destiny 2 drawer for a Destiny 2 account and the
\* Destiny 1 drawer otherwise, showing the cell's loadout; the close
\* callback clears the cell, and then nothing is rendered.
C9_OneDrawerWhenSet ==
  /\ Len(initialLoadout) <= 1
  /\ \A v \in DestinyVersions :
       LET out == Render(initialLoadout, v) IN
         /\ (out = { }) <=> (initialLoadout = << >>)
         /\ Cardinality(out) <= 1
         /\ \A d \in out :
              /\ d.component = (IF v = 2 THEN "LoadoutDrawer" ELSE "D1LoadoutDrawer")
              /\ d.initialLoadout = initialLoadout[1].loadout
              /\ d.storeId = initialLoadout[1].storeId
         /\ Render(handleDrawerClose(initialLoadout), v) = { }
  /\ last.kind = "close" => initialLoadout = << >>

\* C9 witness: the drawer has called the close callback and the cell is unset
C9_Witness ==
  /\ last.kind = "close"
  /\ initialLoadout = << >>

----------------------------------------------------------------------------
(* Properties of the set item *)

\* C10: with exactly one alternative no swap button is shown, with two or
\* more it is; a click on it opens an item picker whose filter accepts an
\* item exactly when its id is the id of one of the alternatives.
C10_SwapPickerOffersAlternatives ==
  /\ Len(itemOptions) = 1 => ~ShowsSwap(itemOptions)
  /\ Len(itemOptions) >= 2 => ShowsSwap(itemOptions)
  /\ lastClick = "swap" =>
       /\ Len(itemOptions) >= 2
       /\ picker # << >>
       /\ \A it \in GearItems :
            filterItems(picker[Len(picker)], it) <=>
              \E k \in 1..Len(itemOptions) : itemOptions[k].id = it.id

\* C10 witness: the swap button was clicked with two alternatives, and the
\* picker that opened turns another item down
C10_Witness ==
  /\ lastClick = "swap"
  /\ Len(itemOptions) = 2
  /\ picker # << >>
  /\ \E it \in GearItems : ~filterItems(picker[Len(picker)], it)

\* the number a text of decimal digits writes
RECURSIVE DecimalValue(_)
DecimalValue(str) ==
  IF Len(str) = 0 THEN 0
  ELSE 10 * DecimalValue(SubSeq(str, 1, Len(str) - 1)) +
       (CHOOSE d \in 0..9 : Digits[d + 1] = str[Len(str)])

\* C11: a socket click dispatches exactly one action.  With a mod category
\* it is 'openModPicker', whose initial query is, for the seasonal category,
\* the season number written in decimal (no query when no season was given)
\* and, for any other category, the translated title of the category; with
\* no category it is 'openPerkPicker', whose initial query is the display
\* name of the clicked plug.
C11_SocketClickOpensOnePicker ==
  lastClick = "socket" =>
    LET click == clicked[1] IN
      /\ Len(dispatched) = 1
      /\ dispatched[1].type \in {"openModPicker", "openPerkPicker"}
      /\ dispatched[1].type = "openModPicker" <=> click.category \in ModPickerCategories
      /\ dispatched[1].type = "openPerkPicker" <=> click.category = Undefined
      /\ click.category = Undefined =>
           dispatched[1].initialQuery = << click.plugDef.name >>
      /\ (click.category = "seasonal" /\ click.season # << >>) =>
           /\ Len(dispatched[1].initialQuery) = 1
           /\ \A i \in 1..Len(dispatched[1].initialQuery[1]) :
                \E d \in 1..10 : Digits[d] = dispatched[1].initialQuery[1][i]
           /\ dispatched[1].initialQuery[1][1] = "0" => click.season[1] = 0
           /\ DecimalValue(dispatched[1].initialQuery[1]) = click.season[1]
      /\ (click.category = "seasonal" /\ click.season = << >>) =>
           dispatched[1].initialQuery = << >>
      /\ click.category \in ModPickerCategories \ {"seasonal"} =>
           dispatched[1].initialQuery =
             << t(armor2ModPlugCategoriesTitles(click.category)) >>

\* C11 witness: a click on a seasonal mod socket of season 10 opened the mod
\* picker on "10", although the plug clicked has a name of its own
C11_Witness ==
  /\ lastClick = "socket"
  /\ clicked[1].category = "seasonal" /\ clicked[1].season = << 10 >>
  /\ clicked[1].plugDef.hash = 77
  /\ dispatched = << [type |-> "openModPicker", initialQuery |-> << << "1", "0" >> >>] >>

\* C12: when the picker the swap button opened is dismissed, nothing is
\* dispatched and no exception leaves the handler; when it resolves, exactly
\* one 'addItemToLockedMap' action is dispatched, for an entry of type
\* 'item' that carries the picked item and that item's bucket.
C12_PickerCancelIsNoOp ==
  /\ lastClick = "dismissed" => (dispatched = << >> /\ ~escaped)
  /\ lastClick = "picked" =>
       /\ ~escaped
       /\ dispatched =
            << [type |-> "addItemToLockedMap",
                item |-> [type |-> "item", ref |-> clicked[1].id,
                          bucket |-> clicked[1].bucket]] >>

\* C12 witness: the picker was dismissed and nothing came of it
C12_Witness ==
  /\ lastClick = "dismissed"
  /\ dispatched = << >> /\ ~escaped
  /\ Len(itemOptions) >= 2

\* C13: the swap button is rendered exactly when there is more than one
\* alternative; the unlock button is rendered exactly when there is at most
\* one alternative and the locked list holds an entry of type 'item'; the
\* two are never rendered together; and a click on the unlock button
\* dispatches exactly one 'removeItemFromLockedMap', for the displayed item
\* and its bucket.
C13_SwapOrUnlock ==
  LET anItemIsLocked == locked # << >> /\ \E i \in 1..Len(locked[1]) :
                                            locked[1][i].type = "item"
  IN /\ ShowsSwap(itemOptions) <=> Len(itemOptions) > 1
     /\ ShowsUnlock(itemOptions, locked) <=> (Len(itemOptions) <= 1 /\ anItemIsLocked)
     /\ ~(ShowsSwap(itemOptions) /\ ShowsUnlock(itemOptions, locked))
     /\ lastClick = "unlock" =>
          /\ Len(itemOptions) <= 1 /\ anItemIsLocked
          /\ dispatched =
               << [type |-> "removeItemFromLockedMap",
                   item |-> [type |-> "item", ref |-> propsItem.id,
                             bucket |-> propsItem.bucket]] >>

\* C13 witness: the unlock button was clicked while the only locked item was
\* another one than the item displayed, and the displayed item was unlocked
C13_Witness ==
  /\ lastClick = "unlock"
  /\ Len(itemOptions) = 1
  /\ \A i \in 1..Len(locked[1]) : locked[1][i].ref # propsItem.id
  /\ Len(dispatched) = 1
  /\ dispatched[1].item.ref = propsItem.id

\* C19: a shift-click on a perk dispatches exactly one action, for the
\* perk clicked: 'removeItemFromLockedMap' when the locked list holds an
\* entry that lockedItemsEqual equates with it, 'addItemToLockedMap' when it
\* does not, which includes an undefined and an empty locked list.
C19_ShiftClickToggles ==
  lastClick = "shift" =>
    LET isLocked == locked # << >> /\ \E i \in 1..Len(locked[1]) :
                                        lockedItemsEqual(clicked[1], locked[1][i])
    IN /\ Len(dispatched) = 1
       /\ dispatched[1].item = clicked[1]
       /\ isLocked => dispatched[1].type = "removeItemFromLockedMap"
       /\ ~isLocked => dispatched[1].type = "addItemToLockedMap"
       /\ (locked = << >> \/ locked = << << >> >>) =>
            dispatched[1].type = "addItemToLockedMap"

\* C19 witness: the perk clicked was the second entry of the locked list,
\* after a locked item, and the click asked to remove it
C19_Witness ==
  /\ lastClick = "shift"
  /\ locked # << >> /\ Len(locked[1]) = 2
  /\ locked[1][1].type = "item"
  /\ locked[1][2] = clicked[1]
  /\ dispatched = << [type |-> "removeItemFromLockedMap", item |-> clicked[1]] >>

----------------------------------------------------------------------------
(* Further properties of the container *)

\* C14 as stated: an add-item event that arrives while a loadout is open leaves the
\* state as it is (the same loadout, store, isNew and showClass), shows no
\* notification and navigates nowhere, whether or not a store backs the item.
C14_AddItemIgnoredWhileOpen ==
  [][ (last'.kind = "addItem" /\ initialLoadout # << >>) =>
        /\ initialLoadout' = initialLoadout
        /\ notified' = << >>
        /\ navigated' = << >>
        /\ location' = location
    ]_vars

\* C15: when the effects of a render at which the pathname has changed to
\* one that ends in neither 'inventory' nor 'loadouts' (or of the first
\* render on such a path) read from the URL a loadout whose class fits a
\* character, with stores and Destiny 2 definitions available, the close
\* effect runs after the URL effect: the state ends up unset, the URL has
\* been replaced by the bare pathname in one replace-navigation, and nothing
\* is shown.
C15_CloseAfterOpenInOneCommit ==
  [][ (/\ CloseRan
       /\ HandledShare'
       /\ HasMatchingStore(stores, handled'[1].payload[1].classType)) =>
        /\ Len(stores) > 0 /\ defsD2
        /\ initialLoadout' = << >>
        /\ location' = [pathname |-> pathname, search |-> NoQuery]
        /\ navigated' = << pathname >>
        /\ notified' = << >>
    ]_vars

\* C15 witness: the render for another screen found a share that a
\* character backs; its effects read and stripped the share, and nothing is
\* open
C15_Witness ==
  /\ last.kind = "navigate"
  /\ HandledShare
  /\ HasMatchingStore(stores, handled[1].payload[1].classType)
  /\ ~KeepsOpen(pathname)
  /\ initialLoadout = << >>
  /\ location = [pathname |-> pathname, search |-> NoQuery]
  /\ navigated = << pathname >>

\* C16 as stated: on any path, an edit-loadout event and an add-item event
\* for which the container's stores hold a backing store, and a share that
\* stores or definitions arriving make readable, with a character of its
\* class, each leave a loadout open; and an open loadout is closed only by
\* the close callback or by the close effect of a render at which the
\* pathname has changed to a path that ends in neither 'inventory' nor
\* 'loadouts'.
C16_CloseOnlyOnPathChange ==
  [][ /\ \A ev \in EditEvents :
           (/\ EditLoadout(ev)
            /\ pickBackingStore(stores, ev.storeId, ev.loadout.classType) # << >>) =>
             initialLoadout' # << >>
      /\ \A item \in DimItems :
           (/\ AddItem(item)
            /\ pickBackingStore(stores, item.owner, item.classType) # << >>) =>
             initialLoadout' # << >>
      /\ (/\ EffectsRan /\ ~pending[1].close
          /\ pending[1].kind \in {"stores", "defs"}
          /\ HandledShare'
          /\ HasMatchingStore(stores, handled'[1].payload[1].classType)) =>
           initialLoadout' # << >>
      /\ (initialLoadout # << >> /\ initialLoadout' = << >>) =>
           \/ last'.kind = "close"
           \/ /\ EffectsRan
              /\ pending[1].close
              /\ ~EndsWith(pathname, Inventory) /\ ~EndsWith(pathname, Loadouts)
    ]_vars

\* the parameter read in the last step was malformed, or a loadout that a
\* character backs
HandledAndDone ==
  /\ handled # << >>
  /\ \/ handled[1].kind = "malformed"
     \/ /\ handled[1].kind = "share"
        /\ HasMatchingStore(stores, handled[1].payload[1].classType)

\* C17: while the stores are empty or the Destiny 2 definitions are not
\* loaded, the effects of a render read no loadout parameter, show nothing,
\* navigate nowhere, leave the URL as it is and leave the state alone (but
\* for the close effect); a parameter is read only by the URL effect of a
\* render, from the query string of that render, at most once; once the URL
\* effect has read a malformed parameter or a loadout that a character
\* backs, it has replace-navigated to the bare pathname and the URL has no
\* parameter; only a change of location brings one back; every render takes
\* its query string from the URL, and effects whose render found no
\* parameter, those of a later update of stores or definitions among them,
\* read nothing, show nothing, navigate nowhere and leave the state alone
\* (but for the close effect).
C17_ParamWaitsAndIsHandledOnce ==
  [][ /\ (EffectsRan /\ (Len(stores) = 0 \/ ~defsD2)) =>
           /\ handled' = << >>
           /\ notified' = << >>
           /\ navigated' = << >>
           /\ location' = location
           /\ initialLoadout' = IF CloseRan THEN << >> ELSE initialLoadout
      /\ Len(handled') <= 1
      /\ handled' # << >> =>
           /\ EffectsRan
           /\ pending[1].url
           /\ handled'[1] = queryString
      /\ HandledAndDone' =>
           /\ navigated' = << pathname >>
           /\ location' = [pathname |-> pathname, search |-> NoQuery]
      /\ (location.search.kind = "none" /\ location'.search.kind # "none") =>
           last'.kind = "location"
      /\ queryString' # queryString => last'.kind = "rendering"
      /\ last'.kind = "rendering" =>
           /\ queryString' = location.search
           /\ location' = location
      /\ (EffectsRan /\ queryString.kind = "none") =>
           /\ handled' = << >>
           /\ notified' = << >>
           /\ navigated' = << >>
           /\ location' = location
           /\ initialLoadout' = IF CloseRan THEN << >> ELSE initialLoadout
    ]_vars

\* C17 witness: the definitions arrived after the stores, and only then was
\* the malformed parameter of the URL read, reported and stripped
C17_Witness ==
  /\ last.kind = "defs"
  /\ handled # << >> /\ handled[1].kind = "malformed"
  /\ notified = << BadLoadoutShare >>
  /\ navigated = << pathname >>
  /\ location = [pathname |-> pathname, search |-> NoQuery]

\* C18 as stated: an edit-loadout event for which the container's stores
\* hold no backing store opens the event's loadout on the current store when
\* there is one; an event is dropped, with the state as it was and nothing
\* shown, only when there is neither a backing store nor a current store.
C18_EditFallsBackToCurrentStore ==
  [][ \A ev \in EditEvents :
        EditLoadout(ev) =>
          /\ notified' = << >>
          /\ IF pickBackingStore(stores, ev.storeId, ev.loadout.classType) # << >>
             THEN /\ initialLoadout' # << >>
                  /\ initialLoadout'[1].loadout = ev.loadout
             ELSE IF getCurrentStore(stores) # << >>
             THEN /\ initialLoadout' # << >>
                  /\ initialLoadout'[1].loadout = ev.loadout
                  /\ initialLoadout'[1].storeId = getCurrentStore(stores)[1].id
             ELSE initialLoadout' = initialLoadout
    ]_vars

=============================================================================
